---- MODULE Spec2Model ----
(***************************************************************************)
(* Request path of the glQiwiApi client: CustomParser._request in front of *)
(* the response cache and the transport, the status-to-message mapping of  *)
(* raise_exception, and the call sites of QiwiWallet.                      *)
(***************************************************************************)
EXTENDS Integers, Sequences, FiniteSets, Bags, TLC

(* ------------------------------ bounds --------------------------------- *)
NumCalls == 2
MaxTime == 2
MaxTTL == 2
MaxEmits == 2
NumSessionIds == 3
MaxHandlers == 2
MaxBuilds == 2

(* ------------------------- program constants --------------------------- *)
DefaultCacheTime == 0
OK200 == 200

Times == 0..MaxTime
SessionIds == 1..NumSessionIds
NoSession == 0

Sites == {"get_balance", "create_new_balance", "set_default_balance"}
ParamSets == {"p1", "p2"}

(* the parameter sets a call site is invoked with *)
ParamsOf(site) == IF site = "get_balance" THEN ParamSets ELSE {"p1"}
Statuses == {200, 201, 204, 404, 418}

(* the data the remote may hold for a request when it answers *)
Vers == {"d1", "d2"}

URLOf(site) == "/" \o site

URLs == {URLOf(s) : s \in Sites}

(* kwargs of one call of _request: the url and the request parameters *)
Kwargs(site, params) == [url |-> URLOf(site), params |-> params]

(* ---------------- status-to-message table of the wallet ---------------- *)
IntKey(n) == [type |-> "int", val |-> n]

StrKey(n) == [type |-> "str", val |-> n]

ERROR_CODE_MATCHES ==
    [k \in {IntKey(n) : n \in {400, 401, 403, 404, 423, 422, 405, 500, 0}} |->
        CASE k.val = 400 -> "Query syntax error"
          [] k.val = 401 -> "Invalid token"
          [] k.val = 403 -> "No permission"
          [] k.val = 404 -> "Object was not found"
          [] k.val = 423 -> "Too many requests"
          [] k.val = 422 -> "Incorrect webhook"
          [] k.val = 405 -> "Wrong request type"
          [] k.val = 500 -> "Internal service error"
          [] OTHER       -> "Proxy or library problem"]

(* dict.get(key, default) *)
DictGet(d, key, default) == IF key \in DOMAIN d THEN d[key] ELSE default

(* raise_exception: message = self.messages.get(str(status_code), "Unknown") *)
raise_exception_message(messages, status_code) ==
    DictGet(messages, StrKey(status_code), "Unknown")

(* extra success status declared at the call site with allow_response_code *)
AllowedCode(site) ==
    CASE site = "create_new_balance"  -> 201
      [] site = "set_default_balance" -> 204
      [] OTHER                        -> 0

(* ------------------------------ transport ------------------------------ *)
(* body the remote returns for a request: tagged with the request it      *)
(* answers, a version of the remote data and the status it was sent with  *)
Body(kw, ver, st) == [url |-> kw.url, params |-> kw.params, ver |-> ver, st |-> st]

NoBody == [url |-> "-", params |-> "-", ver |-> "-", st |-> 0]

Response(kw, ver, st) == [status_code |-> st, response_data |-> Body(kw, ver, st)]

NoResponse == [status_code |-> 0, response_data |-> NoBody]

(* ---------------------------- response cache --------------------------- *)
(* SimpleCache.tmp_data: a dict url -> CachedResponse                      *)
CachedResponse(kw, result, status_code, at) ==
    [kwargs |-> kw, response_data |-> result, status_code |-> status_code,
     cached_in |-> at]

(* an entry is valid only while now - created_at < ttl *)
Fresh(entry, t, cache_time) == t - entry.cached_in < cache_time

(* SimpleCache.validate(kwargs): is there a usable entry for this request *)
validate(data, kw, t, cache_time) ==
    /\ cache_time > 0
    /\ kw.url \in DOMAIN data
    /\ data[kw.url].kwargs = kw
    /\ Fresh(data[kw.url], t, cache_time)

(* lazy eviction done by validate: an expired entry is dropped on access *)
validate_evict(data, kw, t, cache_time) ==
    IF /\ kw.url \in DOMAIN data
       /\ ~Fresh(data[kw.url], t, cache_time)
    THEN [u \in DOMAIN data \ {kw.url} |-> data[u]]
    ELSE data

(* SimpleCache.update_data: store overwrites the entry unconditionally *)
update_data(data, result, kw, status_code, t) ==
    [u \in DOMAIN data \cup {kw.url} |->
        IF u = kw.url THEN CachedResponse(kw, result, status_code, t)
        ELSE data[u]]

(* lookup of the cache contract: the response a hit would return *)
Lookup(data, kw, t, cache_time) ==
    IF validate(data, kw, t, cache_time)
    THEN [status_code |-> data[kw.url].status_code,
          response_data |-> data[kw.url].response_data]
    ELSE NoResponse

(* ------------------------------- state --------------------------------- *)
VARIABLES
    cache_time,       \* SimpleCache._cache_time, set by the constructor
    without_context,  \* CustomParser._without_context
    now,              \* the clock
    tmp_data,         \* SimpleCache.tmp_data without the "session" key
    cached_session,   \* SimpleCache.tmp_data["session"]
    session,          \* HttpXParser.session
    closed,           \* the sessions whose closed flag is set
    calls,            \* the calls of _request awaiting the transport, a bag
    last,             \* what the most recently completed call gave its caller
    fetched_at,       \* per url, when the entry was stored after a transport call
    emits,            \* how many requests the callers have emitted so far
    messages,         \* CustomParser.messages, the table given to the constructor
    overrode,         \* the statuses an overriding call site has raised so far
    sigcheck,         \* a bill notification and the check of its signature
    hook,             \* one delivery to the transaction webhook endpoint
    handlers,         \* the registrations of the handler manager, in order
    request_schema,   \* BuyQiwiCard.request_schema, the class-level template
    built,            \* the builds of requests so far and the latest of them
    wire,             \* the requests handed to the transport, in order
    flow              \* one call of a composite method of QiwiWallet

webhook_vars == <<sigcheck, hook, handlers>>

wallet_vars == <<request_schema, built, wire, flow>>

vars == <<cache_time, without_context, now, tmp_data, cached_session, session,
          closed, calls, last, fetched_at, emits, messages, overrode,
          webhook_vars, wallet_vars>>

(* ------------------------------ sessions ------------------------------- *)
(* variant of check_session: the closed flag is not looked at *)
check_session_IgnoreClosed(s, cl) == s # NoSession

(* check_session: an aiohttp session that is not closed *)
check_session(s, cl) == s # NoSession /\ s \notin cl

(* get_cached_session: the cached session, or nothing when it is unusable *)
get_cached_session(cs, cl) == IF check_session(cs, cl) THEN cs ELSE NoSession

(* set_cached_session: self.session = cached session when there is one *)
set_cached_session(s, cs, cl) ==
    IF get_cached_session(cs, cl) # NoSession THEN get_cached_session(cs, cl) ELSE s

(* cache_session: self._cache["session"] = session when it is usable *)
cache_session(cs, s, cl) == IF check_session(s, cl) THEN s ELSE cs

(* identity of a newly constructed session object: one nothing refers to *)
NewSessionId(s, cs) ==
    CHOOSE i \in SessionIds :
        /\ i \notin {s, cs}
        /\ \A j \in SessionIds : j < i => j \in {s, cs}

(* _close_session: the session is closed only in without_context mode *)
close_session(s, cl, wc) == IF wc THEN cl \cup {s} ELSE cl

(* the transport creates its session lazily when self.session is unusable *)
TransportSession(s, cs, cl) ==
    IF check_session(s, cl) THEN s ELSE NewSessionId(s, cs)

(* ---------------------------- _request steps --------------------------- *)
(* variant of CacheHit: the freshness test is off by one tick *)
CacheHit_OffByOne(data, kw, t, ct) == validate(data, kw, t + 1, ct)

(* variant of CacheHit: the entry is looked up by url alone *)
CacheHit_UrlOnly(data, kw, t, ct) ==
    /\ ct > 0
    /\ kw.url \in DOMAIN data
    /\ Fresh(data[kw.url], t, ct)

(* variant of CacheHit: any stored entry of the request counts, ttl ignored *)
CacheHit_RawGet(data, kw, t, ct) ==
    /\ kw.url \in DOMAIN data
    /\ data[kw.url].kwargs = kw

(* line 48: the request is answered from the cache iff validate(kwargs) *)
CacheHit(data, kw, t, ct) == validate(data, kw, t, ct)

(* variant of StatusIsOk: every 2xx status passes the check *)
StatusIsOk_2xx(status_code) == status_code \in 200..299

(* line 54: a fresh response is a success iff its status code is 200 *)
StatusIsOk(status_code) == status_code = OK200

(* variant of StoreOf: an existing entry is kept (setdefault) *)
StoreOf_KeepOld(data, response, kw, t) ==
    IF kw.url \in DOMAIN data THEN data
    ELSE update_data(data, response.response_data, kw, response.status_code, t)

(* variant of StoreOf: the body of the entry being replaced is stored again *)
(* under the kwargs of the new call                                         *)
StoreOf_StaleBody(data, response, kw, t) ==
    update_data(data,
                IF kw.url \in DOMAIN data THEN data[kw.url].response_data
                ELSE response.response_data,
                kw, response.status_code, t)

(* lines 63-67: what _request hands to update_data for a response *)
StoreOf(data, response, kw, t) ==
    update_data(data, response.response_data, kw, response.status_code, t)

(* a call suspended at line 50: its kwargs and what its lookup returned *)
AwaitingCall(site, params, looked) ==
    [site |-> site, params |-> params, looked_up |-> looked]

(* variant of Stores: update_data runs before the status check *)
Stores_Always(response) == TRUE

(* lines 54-59 come before line 63: only a success reaches update_data *)
Stores(response) == StatusIsOk(response.status_code)

(* SimpleCache.get_current(url): the raw entry, whatever its age *)
get_current(data, url) ==
    IF url \in DOMAIN data
    THEN [status_code |-> data[url].status_code,
          response_data |-> data[url].response_data]
    ELSE NoResponse

NoLast == [site |-> "-", params |-> "-", kind |-> "none",
           status_code |-> 0, body |-> NoBody, message |-> "-",
           via_transport |-> FALSE, looked_up |-> NoResponse,
           prior |-> NoResponse, had_entries |-> FALSE, had_session |-> FALSE]

(* allow_response_code: the declared status counts as success at that site *)
CallSiteOutcome(site, raw) ==
    IF raw.kind = "api_error" /\ raw.status_code = AllowedCode(site)
    THEN [raw EXCEPT !.kind = "ok", !.message = "-"]
    ELSE raw

(* the messages a call site declares with override_error_message, by status *)
OverriddenMessages(site) ==
    CASE site = "_detect_mobile_number" ->
           [k \in {404} |-> "Wrong card number entered, possibly"
                            \o "the card to which you transfer is blocked"]
      [] site = "get_receipt" ->
           [k \in {422} |-> "It is impossible to receive a check due to the fact that "
                            \o "the transaction for this ID has not been completed,"
                            \o "that is, an error occurred during the transaction"]
      [] site = "transfer_money" ->
           [k \in {400} |-> "Not enough funds to execute this operation"]
      [] OTHER -> [k \in {} |-> "-"]

(* the call site declares a message for the status of this API error *)
Overrides(site, out) ==
    out.kind = "api_error" /\ out.status_code \in DOMAIN OverriddenMessages(site)

(* override_error_message: the API error of the wrapped call is raised again *)
(* with the message the call site declares for its status                   *)
override_error_message(site, out) ==
    IF Overrides(site, out)
    THEN [out EXCEPT !.message = OverriddenMessages(site)[out.status_code]]
    ELSE out

Restrict(f, S) == [x \in DOMAIN f \cap S |-> f[x]]

Put(f, k, v) == [x \in DOMAIN f \cup {k} |-> IF x = k THEN v ELSE f[x]]

(* ------------------------- bill notifications -------------------------- *)
(* base64.b64decode of the secret keys the model uses *)
Secrets == {"a2V5MQ==", "a2V5Mg=="}

b64decode(secret) ==
    CASE secret = "a2V5MQ==" -> "key1"
      [] secret = "a2V5Mg==" -> "key2"
      [] OTHER               -> "-"

(* amounts in tenths of a currency unit, and str() of the amount's value *)
AmountValues == {10, 25}

FormatValue(v) ==
    CASE v = 10 -> "1.0"
      [] v = 25 -> "2.5"
      [] OTHER  -> "-"

Currencies == {"RUB", "USD"}
BillIds == {"a", "a|b"}
SiteIds == {"c", "b|c"}
BillStatuses == {"PAID", "EXPIRED"}
SignedFields == {"currency", "value", "id", "site_id", "status"}

(* the bill of a notification: the five fields the signature covers *)
BillOf(currency, value, id, site_id, status) ==
    [currency |-> currency, value |-> value, id |-> id, site_id |-> site_id,
     status |-> status]

Bills == {BillOf(c, v, i, s, st) : c \in Currencies, v \in AmountValues,
              i \in BillIds, s \in SiteIds, st \in BillStatuses}

NoBill == BillOf("-", 0, "-", "-", "-")

(* variant of invoice_params: the bill id and the site id change places *)
invoice_params_SiteFirst(bill) ==
    bill.currency \o "|" \o FormatValue(bill.value) \o "|" \o bill.site_id
        \o "|" \o bill.id \o "|" \o bill.status

(* line 118: f"{currency}|{value}|{id}|{site_id}|{status.value}" *)
invoice_params(bill) ==
    bill.currency \o "|" \o FormatValue(bill.value) \o "|" \o bill.id
        \o "|" \o bill.site_id \o "|" \o bill.status

(* hmac.new(key, msg, hashlib.sha256).hexdigest(): a digest that is equal *)
(* for two inputs only when the key and the message are equal            *)
hmac_sha256_hexdigest(key, msg) == [key |-> key, msg |-> msg]

NoSignature == hmac_sha256_hexdigest("-", "-")

(* lines 113-123: TRUE when verify_signature returns, FALSE when it raises *)
(* WebhookSignatureUnverifiedError                                          *)
verify_signature(bill, sha256_signature, secret_p2p_key) ==
    hmac_sha256_hexdigest(b64decode(secret_p2p_key), invoice_params(bill))
        = sha256_signature

(* the signature the remote signer puts on a notification: the wire      *)
(* contract with the field order currency, amount, bill id, site id,     *)
(* status                                                                 *)
RemoteSignature(bill, secret) ==
    hmac_sha256_hexdigest(b64decode(secret),
        bill.currency \o "|" \o FormatValue(bill.value) \o "|" \o bill.id
            \o "|" \o bill.site_id \o "|" \o bill.status)

Signatures == {RemoteSignature(b, k) : b \in Bills, k \in Secrets}
                  \cup {NoSignature}

NoSigCheck == [stage |-> "idle", bill |-> NoBill, signature |-> NoSignature,
               secret |-> "-", changed |-> "none", result |-> "none"]

(* --------------------- transaction webhook endpoint -------------------- *)
StageOrder == <<"Received", "IPChecked", "Parsed", "SignatureVerified",
                "Dispatched", "Acknowledged">>

Terminal == {"Acknowledged", "Rejected"}

EventTypes == {"transaction", "bill"}

(* the source addresses of deliveries and the configured allow-list *)
Ips == {"79.142.16.1", "10.0.0.1"}

AllowedIps == {"79.142.16.1"}

check_ip(ip) == ip \in AllowedIps

(* app["_base64_key"]: the key the view checks signatures against *)
EncryptionKey == "a2V5MQ=="

Sums == {1, 5}

SumText(sum) == IF sum = 1 THEN "1" ELSE "5"

(* the hash a signer holding the secret puts on a transaction event *)
TransactionHash(sum, secret) ==
    hmac_sha256_hexdigest(b64decode(secret), SumText(sum))

Hashes == {TransactionHash(sum, k) : sum \in Sums, k \in Secrets}

(* a parsed TransactionWebhook: the fields the model needs *)
TransactionOf(sum, is_experimental, hash) ==
    [sum |-> sum, is_experimental |-> is_experimental, hash |-> hash]

Updates == {TransactionOf(sum, e, h) : sum \in Sums, e \in BOOLEAN, h \in Hashes}

NoUpdate == TransactionOf(0, FALSE, NoSignature)

(* a request body: JSON of a transaction event, or bytes that do not parse *)
Bodies == [parses : {TRUE}, update : Updates]
              \cup {[parses |-> FALSE, update |-> NoUpdate]}

(* TransactionWebhook.verify_signature: TRUE when it returns, FALSE when  *)
(* it raises WebhookSignatureUnverifiedError                               *)
transaction_verify_signature(update, key) ==
    update.hash = TransactionHash(update.sum, key)

(* WebhookAPIError(status=...).json(): an object with the one key "status" *)
WebhookAPIError_json(status) == [status |-> status]

NoJson == WebhookAPIError_json("-")

NoHttpResponse == [status |-> 0, content_type |-> "-", text |-> "-",
                   json |-> NoJson]

(* web.HTTPBadRequest(text=..., content_type=...) with a JSON text *)
HTTPBadRequest(json, content_type) ==
    [status |-> 400, content_type |-> content_type, text |-> "-", json |-> json]

NoValidation == [raised |-> FALSE, verified |-> FALSE, response |-> NoHttpResponse]

(* variant of validate_event_signature: no early return for experimental *)
validate_event_signature_NoSkip(update, key) ==
    IF transaction_verify_signature(update, key)
    THEN [NoValidation EXCEPT !.verified = TRUE]
    ELSE [raised |-> TRUE, verified |-> TRUE,
          response |-> HTTPBadRequest(WebhookAPIError_json("Invalid hash of transaction."),
                                      "application/json")]

(* variant of validate_event_signature: returns without calling           *)
(* verify_signature for any event                                         *)
validate_event_signature_NoCheck(update, key) == NoValidation

(* variant of validate_event_signature: the error is logged, not raised *)
validate_event_signature_Swallow(update, key) ==
    IF update.is_experimental
    THEN NoValidation
    ELSE [NoValidation EXCEPT !.verified = TRUE]

(* transaction_view.py lines 14-29, _validate_event_signature *)
validate_event_signature(update, key) ==
    IF update.is_experimental
    THEN NoValidation
    ELSE IF transaction_verify_signature(update, key)
         THEN [NoValidation EXCEPT !.verified = TRUE]
         ELSE [raised |-> TRUE, verified |-> TRUE,
               response |-> HTTPBadRequest(WebhookAPIError_json("Invalid hash of transaction."),
                                           "application/json")]

(* variant of ok_response: an empty body *)
ok_response_Empty == [NoHttpResponse EXCEPT !.status = 200,
                                            !.content_type = "text/plain",
                                            !.text = ""]

(* transaction_view.py lines 31-32: web.Response(text="ok") *)
ok_response == [NoHttpResponse EXCEPT !.status = 200,
                                      !.content_type = "text/plain",
                                      !.text = "ok"]

(* the filters handlers are registered with: predicates on the event *)
Filters == {"any", "large"}

LargeSum == 3

FilterPasses(filter, update) == filter = "any" \/ update.sum >= LargeSum

(* one registration of the handler manager *)
Registration(type, filter, raises) ==
    [type |-> type, filter |-> filter, raises |-> raises]

(* variant of Matches: the filter is not evaluated *)
Matches_AnyFilter(reg, type, update) == reg.type = type

(* a registration is selected for an event: its type and its filter *)
Matches(reg, type, update) ==
    reg.type = type /\ FilterPasses(reg.filter, update)

(* variant of AfterHandler: an exception ends the dispatch *)
AfterHandler_StopOnRaise(pos, n, raised) == IF raised THEN n + 1 ELSE pos + 1

(* the registration the dispatcher turns to after the one at pos *)
AfterHandler(pos, n, raised) == pos + 1

NoHook == [stage |-> "Idle", trace |-> <<>>, ip |-> "-",
           body |-> [parses |-> FALSE, update |-> NoUpdate],
           update |-> NoUpdate, verified |-> FALSE, pos |-> 0,
           invoked |-> <<>>, routed |-> <<>>, reason |-> "-",
           response |-> NoHttpResponse]

(* --------------------------- request builder --------------------------- *)
(* the values of a request body: Python ints and strs, and the marker of  *)
(* a field that is to be left out                                         *)
PyInt(n) == [type |-> "int", val |-> ToString(n)]

PyStr(str) == [type |-> "str", val |-> str]

Absent == [type |-> "absent", val |-> "-"]

(* the nodes of a schema template *)
Literal(value) == [kind |-> "literal", value |-> value]

(* RuntimeValue(), RuntimeValue(default=...), RuntimeValue(default_factory=...) *)
RuntimeValue(mode, value) ==
    [kind |-> "runtime", default |-> [mode |-> mode, value |-> value]]

Dict(keys, items) == [kind |-> "dict", keys |-> keys, items |-> items]

(* variant of AmountPlaceholder: no default *)
AmountPlaceholder_Required == RuntimeValue("none", Absent)

(* buy_qiwi_card.py line 17: "amount": RuntimeValue(default=99) *)
AmountPlaceholder == RuntimeValue("value", PyInt(99))

(* variant of AccountPlaceholder: an empty default *)
AccountPlaceholder_Defaulted == RuntimeValue("value", PyStr(""))

(* buy_qiwi_card.py line 25: "account": RuntimeValue() *)
AccountPlaceholder == RuntimeValue("none", Absent)

(* buy_qiwi_card.py lines 14-28 *)
BuyQiwiCard_request_schema ==
    Dict(<<"id", "sum", "paymentMethod", "fields">>,
         [id |-> RuntimeValue("factory", Absent),
          sum |-> Dict(<<"amount", "currency">>,
                       [amount |-> AmountPlaceholder,
                        currency |-> Literal(PyStr("643"))]),
          paymentMethod |-> Dict(<<"type", "accountId">>,
                                 [type |-> Literal(PyStr("Account")),
                                  accountId |-> Literal(PyStr("643"))]),
          fields |-> Dict(<<"account", "order_id">>,
                          [account |-> AccountPlaceholder,
                           order_id |-> RuntimeValue("none", Absent)])])

(* buy_qiwi_card.py lines 30-31: the fields of the method and the paths   *)
(* they fill                                                               *)
BuyQiwiCard_fields ==
    [phone_number |-> "fields.account", order_id |-> "fields.order_id"]

(* the placeholders of the BuyQiwiCard template, by path *)
PlaceholderPaths == {"id", "sum.amount", "fields.account", "fields.order_id"}

RequiredPaths == {"fields.account", "fields.order_id"}

(* variant of default_factory: the value of a call at time 0 is kept *)
default_factory_Memoized(t) == PyStr(ToString(0))

(* line 15: str(int(time.time() * 1000)) at the time t of the call *)
default_factory(t) == PyStr(ToString(t * 1000))

(* what a node of the template becomes in a build *)
Value(value) == [kind |-> "value", value |-> value, calls |-> 0]

(* a placeholder: the caller's value, else the default, else the value of *)
(* the default factory called now, else the build fails for this path     *)
ResolveRuntime(node, path, R, t) ==
    IF path \in DOMAIN R
    THEN IF R[path] = Absent THEN [kind |-> "absent", calls |-> 0] ELSE Value(R[path])
    ELSE IF node.default.mode = "value" THEN Value(node.default.value)
    ELSE IF node.default.mode = "factory"
         THEN [Value(default_factory(t)) EXCEPT !.calls = 1]
    ELSE [kind |-> "missing", path |-> path, calls |-> 0]

RECURSIVE SumCalls(_, _, _)
SumCalls(child, keys, n) ==
    IF n = 0 THEN 0 ELSE child[keys[n]].calls + SumCalls(child, keys, n - 1)

(* the walk of the template: literals are copied, placeholders resolved,  *)
(* omitted fields dropped; the first unresolved placeholder ends it       *)
RECURSIVE Resolve(_, _, _, _)
Resolve(node, path, R, t) ==
    CASE node.kind = "literal" -> Value(node.value)
      [] node.kind = "runtime" -> ResolveRuntime(node, path, R, t)
      [] OTHER ->
          LET child == [k \in DOMAIN node.items |->
                           Resolve(node.items[k], IF path = "" THEN k ELSE path \o "." \o k, R, t)]
              failed == {i \in 1..Len(node.keys) :
                            child[node.keys[i]].kind = "missing"}
              first == CHOOSE i \in failed : \A j \in failed : i <= j
              kept == SelectSeq(node.keys, LAMBDA k : child[k].kind # "absent")
          IN  IF failed # {}
              THEN [child[node.keys[first]] EXCEPT
                       !.calls = SumCalls(child, node.keys, first)]
              ELSE [kind |-> "dict", keys |-> kept,
                    items |-> [k \in {kept[i] : i \in 1..Len(kept)} |-> child[k]],
                    calls |-> SumCalls(child, node.keys, Len(node.keys))]

(* build(descriptor, runtime values): the body, or SchemaBuildError *)
build(schema, R, t) ==
    LET r == Resolve(schema, "", R, t)
    IN  IF r.kind = "missing"
        THEN [ok |-> FALSE, error |-> "SchemaBuildError", path |-> r.path,
              body |-> [kind |-> "absent", calls |-> 0], calls |-> r.calls]
        ELSE [ok |-> TRUE, error |-> "-", path |-> "-", body |-> r,
              calls |-> r.calls]

(* the value a body holds at a path of the BuyQiwiCard template, and      *)
(* Absent where the body has no such field                                *)
RECURSIVE ValueAt(_, _)
ValueAt(node, keys) ==
    IF keys = <<>>
    THEN IF node.kind = "value" THEN node.value ELSE Absent
    ELSE IF node.kind = "dict" /\ keys[1] \in DOMAIN node.items
         THEN ValueAt(node.items[keys[1]], Tail(keys))
         ELSE Absent

KeysOf(path) ==
    CASE path = "id"              -> <<"id">>
      [] path = "sum.amount"      -> <<"sum", "amount">>
      [] path = "sum.currency"    -> <<"sum", "currency">>
      [] path = "fields.account"  -> <<"fields", "account">>
      [] path = "fields.order_id" -> <<"fields", "order_id">>
      [] path = "paymentMethod.type" -> <<"paymentMethod", "type">>
      [] OTHER -> <<"paymentMethod", "accountId">>

(* the class-level template after a build that resolved it to r *)
TemplateAfter(schema, r) == schema

NoBuilt == [n |-> 0, calls |-> 0, R |-> [p \in {} |-> Absent], at |-> 0,
            result |-> build(Literal(Absent), [p \in {} |-> Absent], 0)]

(* ------------------- composite methods of QiwiWallet ------------------- *)
(* a request handed to the request service: the API method and the value  *)
(* that identifies it (a webhook or order id, the id of a payment body)   *)
Request(method, arg) == [method |-> method, arg |-> arg]

(* what the awaited request comes back with: the id of a webhook or an   *)
(* order and the status of the order, or a failure                       *)
Replies == [kind : {"ok"}, id : {"a1", "b2"},
            status : {"COMPLETED", "DRAFT"}]
               \cup {[kind |-> k, id |-> "-", status |-> "-"] :
                        k \in {"api_error", "transport_error"}}

(* the values callers pass for the flags of bind_webhook *)
Flags == {"True", "False", "1"}

NoError == [type |-> "-", status_code |-> Absent, message |-> "-"]

(* the exception a failed request raises in the calling method *)
ErrorOf(reply) ==
    IF reply.kind = "api_error"
    THEN [type |-> "APIError", status_code |-> PyInt(500), message |-> "-"]
    ELSE [type |-> "TransportError", status_code |-> Absent, message |-> "-"]

(* client.py lines 162-166: the APIError delete_current_webhook raises *)
NoWebhookError ==
    [type |-> "APIError", status_code |-> PyStr("422"),
     message |-> " You didn't register any webhook to delete "]

(* variant of Suppressed: nothing is suppressed *)
Suppressed_Nothing(error) == FALSE

(* client.py line 201: with suppress(APIError) *)
Suppressed(error) == error.type = "APIError"

NoFlow == [op |-> "none", pc |-> "idle", delete_old |-> "False",
           send_test_notification |-> "False", hook_id |-> "-",
           webhook_id |-> "-", order_id |-> "-", status |-> "-",
           outcome |-> "none", error |-> NoError, returns |-> "-",
           got |-> <<>>]

(* variant of delete_current_webhook_resume: the delete request is issued *)
(* whatever the fetch gave                                                *)
delete_current_webhook_resume_Always(pc, reply) ==
    IF pc = "fetch"
    THEN [state |-> "await", pc |-> "delete", error |-> NoError,
          send |-> <<Request("DeleteWebhook", reply.id)>>, hook_id |-> reply.id]
    ELSE IF reply.kind = "ok"
         THEN [state |-> "returned", pc |-> "done", error |-> NoError,
               send |-> <<>>, hook_id |-> "-"]
         ELSE [state |-> "raised", pc |-> "done", error |-> ErrorOf(reply),
               send |-> <<>>, hook_id |-> "-"]

(* client.py lines 157-167: delete_current_webhook after the request it   *)
(* awaits at pc has come back with reply                                  *)
delete_current_webhook_resume(pc, reply) ==
    IF pc = "fetch"
    THEN CASE reply.kind = "api_error" ->
                [state |-> "raised", pc |-> "done", error |-> NoWebhookError,
                 send |-> <<>>, hook_id |-> "-"]
           [] reply.kind = "transport_error" ->
                [state |-> "raised", pc |-> "done", error |-> ErrorOf(reply),
                 send |-> <<>>, hook_id |-> "-"]
           [] OTHER ->
                [state |-> "await", pc |-> "delete", error |-> NoError,
                 send |-> <<Request("DeleteWebhook", reply.id)>>,
                 hook_id |-> reply.id]
    ELSE IF reply.kind = "ok"
         THEN [state |-> "returned", pc |-> "done", error |-> NoError,
               send |-> <<>>, hook_id |-> "-"]
         ELSE [state |-> "raised", pc |-> "done", error |-> ErrorOf(reply),
               send |-> <<>>, hook_id |-> "-"]

(* client.py line 673: _buy_new_qiwi_card(ph_number=..., order_id=...) *)
buy_new_qiwi_card_kwargs(phone_number, order_id) ==
    [ph_number |-> PyStr(phone_number), order_id |-> PyStr(order_id)]

(* BuyQiwiCard of the kwargs: the runtime values the declared fields give to  *)
(* the paths of the template                                               *)
RuntimeValuesOf(fields, kwargs) ==
    [p \in {fields[f] : f \in DOMAIN fields \cap DOMAIN kwargs} |->
        kwargs[CHOOSE f \in DOMAIN fields \cap DOMAIN kwargs : fields[f] = p]]

Init ==
    /\ cache_time \in {DefaultCacheTime} \cup (1..MaxTTL)
    /\ without_context \in BOOLEAN
    /\ now = 0
    /\ tmp_data = [u \in {} |-> CachedResponse(Kwargs("-", "-"), NoBody, 0, 0)]
    /\ cached_session = NoSession
    /\ session = NoSession
    /\ closed = {}
    /\ calls = EmptyBag
    /\ last = NoLast
    /\ fetched_at = [u \in {} |-> 0]
    /\ emits = 0
    /\ messages = ERROR_CODE_MATCHES
    /\ overrode = {}
    /\ request_schema = BuyQiwiCard_request_schema
    /\ built = NoBuilt
    /\ wire = <<>>
    /\ flow = NoFlow
    /\ sigcheck = NoSigCheck
    /\ hook = NoHook
    /\ handlers = <<>>

(* lines 45-50 and, on a hit, 53 and 63-70 *)
Emit(site, params) ==
    LET kw == Kwargs(site, params)
        response == get_current(tmp_data, kw.url)
        hit == CacheHit(tmp_data, kw, now, cache_time)
        looked == Lookup(tmp_data, kw, now, cache_time)
        data1 == validate_evict(tmp_data, kw, now, cache_time)
    IN  /\ BagCardinality(calls) < NumCalls
        /\ emits < MaxEmits
        /\ emits' = emits + 1
        /\ IF hit
           THEN /\ tmp_data' = StoreOf(data1, response, kw, now)
                /\ cached_session' = cache_session(cached_session, session, closed)
                /\ last' = [NoLast EXCEPT
                            !.site = site, !.params = params,
                            !.kind = "ok", !.status_code = response.status_code,
                            !.body = response.response_data,
                            !.looked_up = looked, !.prior = response]
                /\ fetched_at' = Restrict(fetched_at, DOMAIN tmp_data')
                /\ UNCHANGED <<session, closed, calls>>
           ELSE /\ tmp_data' = data1
                /\ fetched_at' = Restrict(fetched_at, DOMAIN data1)
                /\ session' = TransportSession(
                       set_cached_session(session, cached_session, closed),
                       cached_session, closed)
                /\ closed' = closed \ {session'}
                /\ calls' = calls (+) SetToBag({AwaitingCall(site, params, looked)})
                /\ last' = NoLast
                /\ UNCHANGED cached_session
        /\ UNCHANGED <<webhook_vars, wallet_vars, messages, overrode,
                       cache_time, without_context, now>>

(* lines 53-70 for a response of the transport *)
Finish(c, response) ==
    LET site == c.site
        kw == Kwargs(site, c.params)
        raw == [NoLast EXCEPT
                !.site = site, !.params = c.params,
                !.kind = IF StatusIsOk(response.status_code) THEN "ok" ELSE "api_error",
                !.status_code = response.status_code,
                !.body = response.response_data,
                !.message = IF StatusIsOk(response.status_code) THEN "-"
                            ELSE raise_exception_message(messages,
                                                         response.status_code),
                !.via_transport = TRUE, !.looked_up = c.looked_up,
                !.prior = get_current(tmp_data, kw.url)]
    IN  /\ IF Stores(response)
           THEN /\ tmp_data' = StoreOf(tmp_data, response, kw, now)
                /\ fetched_at' = Put(fetched_at, kw.url, now)
                /\ cached_session' = cache_session(cached_session, session, closed')
           ELSE UNCHANGED <<tmp_data, fetched_at, cached_session>>
        /\ last' = override_error_message(site, CallSiteOutcome(site, raw))
        /\ overrode' = overrode \cup
                        (IF Overrides(site, last') THEN {last'.status_code} ELSE {})
        /\ calls' = calls (-) SetToBag({c})

(* line 50 returns a response: lines 53-70 run without suspending, the    *)
(* awaited session.close() of _close_session included                     *)
ResponseArrives(c, st, ver) ==
    LET response == Response(Kwargs(c.site, c.params), ver, st)
    IN  /\ BagIn(c, calls)
        /\ closed' = close_session(session, closed, without_context)
        /\ Finish(c, response)
        /\ UNCHANGED <<webhook_vars, wallet_vars, messages,
                       cache_time, without_context, now, session, emits>>

(* line 50 raises: timeout, cancellation or another transport failure *)
TransportFails(c) ==
    /\ BagIn(c, calls)
    /\ calls' = calls (-) SetToBag({c})
    /\ last' = [NoLast EXCEPT !.site = c.site,
                              !.params = c.params,
                              !.kind = "transport_error",
                              !.via_transport = TRUE,
                              !.looked_up = c.looked_up,
                              !.prior = get_current(tmp_data, URLOf(c.site))]
    /\ UNCHANGED <<webhook_vars, wallet_vars, messages, overrode,
                   cache_time, without_context, now, tmp_data, fetched_at,
                   cached_session, session, closed, emits>>

(* variant of clear_cache: without force, only expired entries are dropped *)
clear_cache_NoForce ==
    /\ tmp_data' = Restrict(tmp_data,
           {u \in DOMAIN tmp_data : Fresh(tmp_data[u], now, cache_time)})
    /\ fetched_at' = Restrict(fetched_at, DOMAIN tmp_data')
    /\ cached_session' = cached_session
    /\ last' = [NoLast EXCEPT !.kind = "cleared",
                              !.had_entries = (DOMAIN tmp_data # {}),
                              !.had_session = (cached_session # NoSession)]
    /\ UNCHANGED <<webhook_vars, wallet_vars, messages, overrode,
                   cache_time, without_context, now, session, closed, calls, emits>>

(* clear_cache: self._cache.clear(force=True) *)
clear_cache ==
    /\ tmp_data' = Restrict(tmp_data, {})
    /\ fetched_at' = Restrict(fetched_at, {})
    /\ cached_session' = NoSession
    /\ last' = [NoLast EXCEPT !.kind = "cleared",
                              !.had_entries = (DOMAIN tmp_data # {}),
                              !.had_session = (cached_session # NoSession)]
    /\ UNCHANGED <<webhook_vars, wallet_vars, messages, overrode,
                   cache_time, without_context, now, session, closed, calls, emits>>

Tick ==
    /\ now < MaxTime
    /\ now' = now + 1
    /\ last' = NoLast
    /\ UNCHANGED <<webhook_vars, wallet_vars, messages, overrode,
                   cache_time, without_context, tmp_data, fetched_at,
                   cached_session, session, closed, calls, emits>>

Next ==
    \/ \E site \in Sites : \E params \in ParamsOf(site) : Emit(site, params)
    \/ \E c \in BagToSet(calls), st \in Statuses, ver \in Vers : ResponseArrives(c, st, ver)
    \/ \E c \in BagToSet(calls) : TransportFails(c)
    \/ clear_cache
    \/ Tick

Spec == Init /\ [][Next]_vars

(* ------------- the wallet's call sites with declared messages ---------- *)
WalletSites == {"_detect_mobile_number", "get_receipt", "transfer_money",
                "get_card_id"}

WalletStatuses == {200, 400, 404, 422}

WalletNext ==
    \/ \E site \in WalletSites : Emit(site, "p1")
    \/ \E c \in BagToSet(calls), st \in WalletStatuses, ver \in Vers :
           ResponseArrives(c, st, ver)
    \/ \E c \in BagToSet(calls) : TransportFails(c)
    \/ clear_cache
    \/ Tick

WalletSpec == Init /\ [][WalletNext]_vars

(* ------------------ a client on which nothing is called ---------------- *)
client_vars == <<cache_time, without_context, now, tmp_data, cached_session,
                 session, closed, calls, last, fetched_at, emits, messages,
                 overrode, wallet_vars>>

ClientIdle ==
    /\ cache_time = DefaultCacheTime
    /\ without_context = FALSE
    /\ now = 0
    /\ tmp_data = [u \in {} |-> CachedResponse(Kwargs("-", "-"), NoBody, 0, 0)]
    /\ cached_session = NoSession
    /\ session = NoSession
    /\ closed = {}
    /\ calls = EmptyBag
    /\ last = NoLast
    /\ fetched_at = [u \in {} |-> 0]
    /\ emits = 0
    /\ messages = ERROR_CODE_MATCHES
    /\ overrode = {}
    /\ request_schema = BuyQiwiCard_request_schema
    /\ built = NoBuilt
    /\ wire = <<>>
    /\ flow = NoFlow

(* ------------------- checking a bill notification ---------------------- *)
(* the remote signs a notification of a bill and sends it *)
Notify(bill, secret) ==
    /\ sigcheck.stage = "idle"
    /\ sigcheck' = [NoSigCheck EXCEPT !.stage = "sent", !.bill = bill,
                                      !.secret = secret,
                                      !.signature = RemoteSignature(bill, secret)]
    /\ UNCHANGED <<client_vars, hook, handlers>>

(* one of the five signed fields of the notification is changed on the way *)
ChangeField(field, bill) ==
    /\ sigcheck.stage = "sent"
    /\ bill[field] # sigcheck.bill[field]
    /\ \A f \in SignedFields \ {field} : bill[f] = sigcheck.bill[f]
    /\ sigcheck' = [sigcheck EXCEPT !.stage = "changed", !.bill = bill,
                                    !.changed = field]
    /\ UNCHANGED <<client_vars, hook, handlers>>

(* the supplied signature is changed on the way *)
ChangeSignature(signature) ==
    /\ sigcheck.stage = "sent"
    /\ signature # sigcheck.signature
    /\ sigcheck' = [sigcheck EXCEPT !.stage = "changed",
                                    !.signature = signature,
                                    !.changed = "signature"]
    /\ UNCHANGED <<client_vars, hook, handlers>>

(* p2p/types.py lines 113-123: BillWebhook.verify_signature is called *)
VerifySignature ==
    /\ sigcheck.stage \in {"sent", "changed"}
    /\ sigcheck' = [sigcheck EXCEPT
           !.stage = "verified",
           !.result = IF verify_signature(sigcheck.bill, sigcheck.signature,
                                          sigcheck.secret)
                      THEN "accepted" ELSE "unverified"]
    /\ UNCHANGED <<client_vars, hook, handlers>>

SignatureInit ==
    /\ ClientIdle
    /\ sigcheck = NoSigCheck
    /\ hook = NoHook
    /\ handlers = <<>>

SignatureNext ==
    \/ \E bill \in Bills, secret \in Secrets : Notify(bill, secret)
    \/ \E field \in SignedFields, bill \in Bills : ChangeField(field, bill)
    \/ \E signature \in Signatures : ChangeSignature(signature)
    \/ VerifySignature

SignatureSpec == SignatureInit /\ [][SignatureNext]_vars

(* ---------------- serving the transaction webhook endpoint ------------- *)
Enter(h, stage) == [h EXCEPT !.stage = stage, !.trace = Append(h.trace, stage)]

Reject(h, reason) == [Enter(h, "Rejected") EXCEPT !.reason = reason]

(* a handler with its filter is registered before the server is started *)
Register(type, filter, raises) ==
    /\ hook.stage = "Idle"
    /\ Len(handlers) < MaxHandlers
    /\ handlers' = Append(handlers, Registration(type, filter, raises))
    /\ UNCHANGED <<client_vars, sigcheck, hook>>

(* a POST reaches the path setup_transaction_data added the view under *)
Receive(ip, body) ==
    /\ hook.stage = "Idle"
    /\ hook' = [Enter(NoHook, "Received") EXCEPT !.ip = ip, !.body = body]
    /\ UNCHANGED <<client_vars, sigcheck, handlers>>

(* the view asks the check_ip callable of the application about the source *)
CheckIp ==
    /\ hook.stage = "Received"
    /\ hook' = IF check_ip(hook.ip) THEN Enter(hook, "IPChecked")
               ELSE Reject(hook, "ip")
    /\ UNCHANGED <<client_vars, sigcheck, handlers>>

(* the body is read and parsed into a TransactionWebhook *)
Parse ==
    /\ hook.stage = "IPChecked"
    /\ hook' = IF hook.body.parses
               THEN [Enter(hook, "Parsed") EXCEPT !.update = hook.body.update]
               ELSE Reject(hook, "parse")
    /\ UNCHANGED <<client_vars, sigcheck, handlers>>

(* _validate_event_signature(update) with the key of the application *)
ValidateSignature ==
    LET v == validate_event_signature(hook.update, EncryptionKey)
    IN  /\ hook.stage = "Parsed"
        /\ hook' = IF v.raised
                   THEN [Reject(hook, "signature") EXCEPT
                            !.verified = v.verified, !.response = v.response]
                   ELSE [Enter(hook, "SignatureVerified") EXCEPT
                            !.verified = v.verified, !.pos = 1]
        /\ UNCHANGED <<client_vars, sigcheck, handlers>>

(* the dispatcher turns to the next registration: a selected handler is   *)
(* invoked, and what it raises goes to the exception handlers              *)
Feed ==
    LET reg == handlers[hook.pos]
        selected == Matches(reg, "transaction", hook.update)
        raised == selected /\ reg.raises
    IN  /\ hook.stage = "SignatureVerified"
        /\ hook.pos \in 1..Len(handlers)
        /\ hook' = [hook EXCEPT
               !.invoked = IF selected THEN Append(@, hook.pos) ELSE @,
               !.routed = IF raised THEN Append(@, hook.pos) ELSE @,
               !.pos = AfterHandler(hook.pos, Len(handlers), raised)]
        /\ UNCHANGED <<client_vars, sigcheck, handlers>>

(* no registration is left: process_event returns to the view *)
Dispatched ==
    /\ hook.stage = "SignatureVerified"
    /\ hook.pos > Len(handlers)
    /\ hook' = Enter(hook, "Dispatched")
    /\ UNCHANGED <<client_vars, sigcheck, handlers>>

(* the view answers with ok_response() *)
Acknowledge ==
    /\ hook.stage = "Dispatched"
    /\ hook' = [Enter(hook, "Acknowledged") EXCEPT !.response = ok_response]
    /\ UNCHANGED <<client_vars, sigcheck, handlers>>

Serve ==
    CheckIp \/ Parse \/ ValidateSignature \/ Feed \/ Dispatched \/ Acknowledge

WebhookInit ==
    /\ ClientIdle
    /\ sigcheck = NoSigCheck
    /\ hook = NoHook
    /\ handlers = <<>>

WebhookNext ==
    \/ \E type \in EventTypes, filter \in Filters, raises \in BOOLEAN :
           Register(type, filter, raises)
    \/ \E ip \in Ips, body \in Bodies : Receive(ip, body)
    \/ CheckIp
    \/ Parse
    \/ ValidateSignature
    \/ Feed
    \/ Dispatched
    \/ Acknowledge

(* the event loop runs every step of a request that is ready to run *)
WebhookSpec == WebhookInit /\ [][WebhookNext]_vars /\ WF_vars(Serve)

(* --------------------------- building requests ------------------------- *)
parser_vars == <<cache_time, without_context, tmp_data, cached_session,
                 session, closed, calls, last, fetched_at, emits, messages,
                 overrode>>

(* the sets of runtime values: for some of the paths, a value each *)
(* of the paths the fields of a method fill, and a value or the absent    *)
(* marker each                                                            *)
RuntimeValueSets ==
    UNION {[S -> {PyStr("v"), Absent}] :
              S \in SUBSET {"sum.amount", "fields.account", "fields.order_id"}}

(* emit_request_to_api(BuyQiwiCard) with the runtime values R: the body   *)
(* is built and, when that succeeds, handed to the transport              *)
BuildRequest(R) ==
    \E r \in {build(request_schema, R, now)} :
        /\ built.n < MaxBuilds
        /\ built' = [n |-> built.n + 1, calls |-> built.calls + r.calls,
                     R |-> R, at |-> now, result |-> r]
        /\ wire' = IF r.ok
                   THEN Append(wire, Request("BuyQiwiCard",
                                             ValueAt(r.body, <<"id">>).val))
                   ELSE wire
        /\ request_schema' = TemplateAfter(request_schema, r.body)
        /\ UNCHANGED <<webhook_vars, parser_vars, now, flow>>

BuilderInit ==
    /\ ClientIdle
    /\ sigcheck = NoSigCheck
    /\ hook = NoHook
    /\ handlers = <<>>

BuilderNext ==
    \/ \E R \in RuntimeValueSets : BuildRequest(R)
    \/ Tick

BuilderSpec == BuilderInit /\ [][BuilderNext]_vars

(* ------------------ calls of the composite methods --------------------- *)
Raise(f, error) == [f EXCEPT !.outcome = "raised", !.error = error, !.pc = "done"]

Return(f, value) == [f EXCEPT !.outcome = "returned", !.returns = value, !.pc = "done"]

(* client.py lines 178-203: bind_webhook up to its first await *)
bind_webhook(send_test_notification, delete_old) ==
    /\ flow.op = "none"
    /\ flow' = [NoFlow EXCEPT
           !.op = "bind_webhook", !.outcome = "running",
           !.send_test_notification = send_test_notification,
           !.delete_old = delete_old,
           !.pc = IF delete_old # "False" THEN "fetch" ELSE "register"]
    /\ wire' = Append(wire, IF delete_old # "False"
                            THEN Request("GetCurrentWebhook", "-")
                            ELSE Request("RegisterWebhook", "url"))
    /\ UNCHANGED <<webhook_vars, parser_vars, now, request_schema, built>>

(* client.py lines 200-210: bind_webhook goes on after an await *)
bind_webhook_resumes(reply) ==
    LET f == [flow EXCEPT !.got = Append(@, reply)]
        d == delete_current_webhook_resume(flow.pc, reply)
    IN  /\ flow.op = "bind_webhook"
        /\ flow.outcome = "running"
        /\ CASE flow.pc \in {"fetch", "delete"} ->
                  IF d.state = "await"
                  THEN /\ flow' = [f EXCEPT !.pc = d.pc, !.hook_id = d.hook_id]
                       /\ wire' = wire \o d.send
                  ELSE IF d.state = "returned" \/ Suppressed(d.error)
                  THEN /\ flow' = [f EXCEPT !.pc = "register"]
                       /\ wire' = Append(wire, Request("RegisterWebhook", "url"))
                  ELSE /\ flow' = Raise(f, d.error)
                       /\ wire' = wire
             [] flow.pc = "register" ->
                  IF reply.kind = "ok"
                  THEN /\ flow' = [f EXCEPT !.pc = "key", !.webhook_id = reply.id]
                       /\ wire' = Append(wire, Request("GetWebhookSecret", reply.id))
                  ELSE /\ flow' = Raise(f, ErrorOf(reply))
                       /\ wire' = wire
             [] flow.pc = "key" ->
                  IF reply.kind # "ok"
                  THEN /\ flow' = Raise(f, ErrorOf(reply))
                       /\ wire' = wire
                  ELSE IF flow.send_test_notification = "True"
                  THEN /\ flow' = [f EXCEPT !.pc = "test"]
                       /\ wire' = Append(wire,
                                      Request("SendTestWebhookNotification", "-"))
                  ELSE /\ flow' = Return(f, flow.webhook_id)
                       /\ wire' = wire
             [] OTHER ->
                  /\ flow' = IF reply.kind = "ok" THEN Return(f, flow.webhook_id)
                             ELSE Raise(f, ErrorOf(reply))
                  /\ wire' = wire
        /\ UNCHANGED <<webhook_vars, parser_vars, now, request_schema, built>>

(* client.py lines 157-160: delete_current_webhook up to its first await *)
delete_current_webhook ==
    /\ flow.op = "none"
    /\ flow' = [NoFlow EXCEPT !.op = "delete_current_webhook",
                              !.outcome = "running", !.pc = "fetch"]
    /\ wire' = Append(wire, Request("GetCurrentWebhook", "-"))
    /\ UNCHANGED <<webhook_vars, parser_vars, now, request_schema, built>>

(* client.py lines 160-167: delete_current_webhook goes on after an await *)
delete_current_webhook_resumes(reply) ==
    LET f == [flow EXCEPT !.got = Append(@, reply)]
        d == delete_current_webhook_resume(flow.pc, reply)
    IN  /\ flow.op = "delete_current_webhook"
        /\ flow.outcome = "running"
        /\ flow' = CASE d.state = "await" ->
                          [f EXCEPT !.pc = d.pc, !.hook_id = d.hook_id]
                     [] d.state = "returned" -> Return(f, flow.hook_id)
                     [] OTHER -> Raise(f, d.error)
        /\ wire' = wire \o d.send
        /\ UNCHANGED <<webhook_vars, parser_vars, now, request_schema, built>>

(* client.py lines 657-670 and 677-681: issue_qiwi_master_card up to the  *)
(* await in _pre_qiwi_master_request                                      *)
issue_qiwi_master_card ==
    /\ flow.op = "none"
    /\ flow' = [NoFlow EXCEPT !.op = "issue_qiwi_master_card",
                              !.outcome = "running", !.pc = "pre"]
    /\ wire' = Append(wire, Request("PreQIWIMasterRequest", "qvc-cpa"))
    /\ UNCHANGED <<webhook_vars, parser_vars, now, request_schema, built>>

(* client.py lines 670-675 and 683-691: issue_qiwi_master_card goes on    *)
(* after an await                                                         *)
issue_qiwi_master_card_resumes(reply) ==
    LET f == [flow EXCEPT !.got = Append(@, reply)]
        r == build(request_schema,
                   RuntimeValuesOf(BuyQiwiCard_fields,
                       buy_new_qiwi_card_kwargs("+79001234567", reply.id)),
                   now)
    IN  /\ flow.op = "issue_qiwi_master_card"
        /\ flow.outcome = "running"
        /\ CASE reply.kind # "ok" ->
                  /\ flow' = Raise(f, ErrorOf(reply))
                  /\ wire' = wire
             [] reply.kind = "ok" /\ flow.pc = "pre" ->
                  /\ flow' = [f EXCEPT !.pc = "confirm", !.order_id = reply.id]
                  /\ wire' = Append(wire,
                                 Request("ConfirmQiwiMasterRequest", reply.id))
             [] reply.kind = "ok" /\ flow.pc = "confirm" ->
                  IF reply.status = "COMPLETED"
                  THEN /\ flow' = Return([f EXCEPT !.status = reply.status],
                                         reply.id)
                       /\ wire' = wire
                  ELSE IF r.ok
                  THEN /\ flow' = [f EXCEPT !.pc = "buy", !.status = reply.status]
                       /\ wire' = Append(wire,
                                      Request("BuyQiwiCard",
                                              ValueAt(r.body, <<"id">>).val))
                  ELSE /\ flow' = Raise([f EXCEPT !.status = reply.status],
                                        [type |-> r.error, status_code |-> Absent,
                                         message |-> r.path])
                       /\ wire' = wire
             [] OTHER ->
                  /\ flow' = Return(f, reply.id)
                  /\ wire' = wire
        /\ UNCHANGED <<webhook_vars, parser_vars, now, request_schema, built>>

WalletFlowInit ==
    /\ ClientIdle
    /\ sigcheck = NoSigCheck
    /\ hook = NoHook
    /\ handlers = <<>>

WalletFlowNext ==
    \/ \E send_test_notification \in Flags, delete_old \in Flags :
           bind_webhook(send_test_notification, delete_old)
    \/ \E reply \in Replies : bind_webhook_resumes(reply)
    \/ delete_current_webhook
    \/ \E reply \in Replies : delete_current_webhook_resumes(reply)
    \/ issue_qiwi_master_card
    \/ \E reply \in Replies : issue_qiwi_master_card_resumes(reply)

WalletFlowSpec == WalletFlowInit /\ [][WalletFlowNext]_vars

(* ------------------------------ requests ------------------------------- *)
Requests == {Kwargs(site, params) : site \in Sites, params \in ParamSets}

Completed == last.kind \in {"ok", "api_error", "transport_error"}

LastKwargs == Kwargs(last.site, last.params)

(* a step in which a call that awaited the transport returns or raises *)
Returned == BagCardinality(calls') < BagCardinality(calls)

(* the message the wallet's table holds for a status code *)
TableMessage(status_code) ==
    DictGet(ERROR_CODE_MATCHES, IntKey(status_code), "Unknown")

(* the statuses that are a success at a call site *)
SuccessAt(site) == {OK200, AllowedCode(site)}

(* C1: a request emitted while the cache holds a valid entry for it is     *)
(* answered with the cached body without invoking the transport, and the   *)
(* transport is invoked only for a request whose lookup missed.            *)
C1_HitSkipsTransport ==
    /\ (Completed /\ last.looked_up # NoResponse) =>
           /\ ~last.via_transport
           /\ last.kind = "ok"
           /\ last.body = last.looked_up.response_data
    /\ (Completed /\ last.via_transport) => last.looked_up = NoResponse
    /\ \A c \in BagToSet(calls) : c.looked_up = NoResponse

C1_Witness ==
    /\ last.kind = "ok"
    /\ ~last.via_transport
    /\ last.looked_up # NoResponse
    /\ last.body = last.looked_up.response_data

C3_FailureNeverStores ==
    /\ [](\A u \in DOMAIN tmp_data :
            /\ tmp_data[u].status_code = OK200
            /\ tmp_data[u].response_data.st = OK200)
    /\ [][(/\ Returned
            /\ last'.kind \in {"api_error", "transport_error"})
           => tmp_data' = tmp_data]_vars

C3_Witness ==
    /\ last.kind \in {"api_error", "transport_error"}
    /\ last.prior # NoResponse
    /\ get_current(tmp_data, URLOf(last.site)) = last.prior

(* C4: a successful call is answered with a response to its own url and    *)
(* its own parameters, never with the response cached for another request, *)
(* and every entry is filed under the url of the request it answers.       *)
C4_NoConflation ==
    /\ last.kind = "ok" =>
           /\ last.body.url = URLOf(last.site)
           /\ last.body.params = last.params
    /\ \A u \in DOMAIN tmp_data :
           /\ tmp_data[u].kwargs.url = u
           /\ tmp_data[u].response_data.url = u

C4_Witness ==
    \E c \in BagToSet(calls) :
        /\ c.site = "get_balance"
        /\ c.params = "p2"
        /\ validate(tmp_data, Kwargs("get_balance", "p1"), now, cache_time)

(* C5: a request is answered from the cache only while less than ttl has   *)
(* elapsed since the entry was stored after its transport call, however    *)
(* many cache hits happened in between.                                    *)
C5_ExpiresAfterTransportStore ==
    /\ (last.kind = "ok" /\ ~last.via_transport) =>
           now - fetched_at[URLOf(last.site)] < cache_time
    /\ \A kw \in Requests :
           Lookup(tmp_data, kw, now, cache_time) # NoResponse =>
               now - fetched_at[kw.url] < cache_time

(* C6: with ttl 0 no lookup returns an entry, whatever was stored, and     *)
(* every completed request went through the transport.                    *)
C6_ZeroTtlDisablesCache ==
    cache_time = DefaultCacheTime =>
        /\ \A kw \in Requests : Lookup(tmp_data, kw, now, cache_time) = NoResponse
        /\ Completed => last.via_transport

C6_Witness ==
    /\ cache_time = DefaultCacheTime
    /\ last.kind = "ok"
    /\ last.via_transport
    /\ last.prior # NoResponse
    /\ last.prior.response_data.params = last.params

(* C7: for ttl > 0, right after a response is stored a lookup of the same  *)
(* request returns that response, whatever entry the url held before.      *)
C7_StoreThenLookup ==
    [][(/\ Returned
        /\ last'.kind = "ok"
        /\ last'.status_code = OK200
        /\ cache_time > 0)
       => Lookup(tmp_data', Kwargs(last'.site, last'.params), now', cache_time')
            = [status_code |-> OK200, response_data |-> last'.body]]_vars

C7_Witness ==
    /\ cache_time > 0
    /\ last.kind = "ok"
    /\ last.via_transport
    /\ last.status_code = OK200
    /\ last.prior # NoResponse
    /\ last.prior.response_data # last.body
    /\ Lookup(tmp_data, LastKwargs, now, cache_time).response_data = last.body

(* C8: right after clear_cache every lookup misses and get_cached_session  *)
(* returns nothing, whatever the ttl and the age of the entries.           *)
C8_ClearEmptiesCache ==
    last.kind = "cleared" =>
        /\ \A kw \in Requests : Lookup(tmp_data, kw, now, cache_time) = NoResponse
        /\ \A u \in URLs : get_current(tmp_data, u) = NoResponse
        /\ get_cached_session(cached_session, closed) = NoSession

C8_Witness ==
    /\ last.kind = "cleared"
    /\ last.had_entries
    /\ last.had_session
    /\ cache_time > 0
    /\ DOMAIN tmp_data = {}

(* C9: under every interleaving of in-flight calls each entry is one whole *)
(* response (body, status and request belong together), and an entry       *)
(* changes only by a store that replaces it with the storing call's        *)
(* response: the last store wins.                                          *)
WellFormed(u, e) ==
    /\ e.kwargs.url = u
    /\ e.response_data.url = u
    /\ e.response_data.params = e.kwargs.params
    /\ e.response_data.st = e.status_code

C9_LastStoreWins ==
    /\ [](\A u \in DOMAIN tmp_data : WellFormed(u, tmp_data[u]))
    /\ [][\A u \in DOMAIN tmp_data' :
            (u \notin DOMAIN tmp_data \/ tmp_data'[u] # tmp_data[u]) =>
                /\ last'.kind = "ok"
                /\ u = URLOf(last'.site)
                /\ tmp_data'[u] = CachedResponse(Kwargs(last'.site, last'.params),
                                                 last'.body, last'.status_code, now')]_vars

C9_Witness ==
    /\ cache_time > 0
    /\ now = 0
    /\ last.kind = "ok"
    /\ last.via_transport
    /\ last.prior # NoResponse
    /\ last.prior.response_data.params = last.params
    /\ last.prior.response_data # last.body
    /\ tmp_data[URLOf(last.site)].response_data = last.body

(* C10: a status declared at the call site (201 at create_new_balance, 204 *)
(* at set_default_balance) gives the caller a result, and the same status  *)
(* at a call site that did not declare it raises the API error.            *)
C10_AllowedStatus ==
    (Completed /\ last.via_transport /\ last.status_code \in {201, 204}) =>
        IF last.status_code = AllowedCode(last.site)
        THEN last.kind = "ok" /\ last.body.st = last.status_code
        ELSE last.kind = "api_error"

C10_Witness ==
    /\ last.site = "create_new_balance"
    /\ last.via_transport
    /\ last.status_code = 201
    /\ last.kind = "ok"

C13_RequestScopedSessionClosed ==
    /\ (without_context /\ Completed /\ last.via_transport) => session \in closed
    /\ ~without_context => closed = {}

(* ------------------------------ webhooks ------------------------------- *)
Range(seq) == {seq[i] : i \in 1..Len(seq)}

(* the request has been through the stage *)
Visited(stage) == stage \in Range(hook.trace)

(* the signature validation of the request has run *)
Validated == Visited("SignatureVerified") \/ hook.reason = "signature"

(* the hash of the event is the one the key of the view gives *)
HashIsGenuine ==
    hook.update.hash = TransactionHash(hook.update.sum, EncryptionKey)

(* the registrations the event of the request selects *)
Selected ==
    {i \in 1..Len(handlers) :
        /\ handlers[i].type = "transaction"
        /\ (handlers[i].filter = "any" \/ hook.update.sum >= LargeSum)}

(* C14: verify_signature accepts the signature the remote computes as the *)
(* HMAC-SHA256 hex digest, keyed by the base64-decoded secret, of         *)
(* currency|amount value|bill id|site id|status value, and raises the     *)
(* signature-unverified error for every other signature: after a change   *)
(* of the supplied signature or of one of the five signed fields          *)
C14_SignatureRoundTrip ==
    sigcheck.stage = "verified" =>
        /\ sigcheck.result \in {"accepted", "unverified"}
        /\ sigcheck.result = "accepted" <=>
               sigcheck.signature = RemoteSignature(sigcheck.bill, sigcheck.secret)
        /\ sigcheck.changed = "none" => sigcheck.result = "accepted"
        /\ sigcheck.changed \in SignedFields \cup {"signature"} =>
               sigcheck.result = "unverified"

C14_Witness ==
    /\ sigcheck.stage = "verified"
    /\ sigcheck.changed = "site_id"
    /\ sigcheck.result = "unverified"

(* C15: an experimental transaction event passes the validation whatever  *)
(* its hash and no signature is computed for it; a non-experimental event *)
(* is always checked against the key and passes only with a genuine hash  *)
C15_ExperimentalSkipsSignature ==
    Validated =>
        IF hook.update.is_experimental
        THEN ~hook.verified /\ Visited("SignatureVerified")
        ELSE hook.verified /\ (Visited("SignatureVerified") <=> HashIsGenuine)

C15_Witness ==
    /\ hook.update.is_experimental
    /\ ~HashIsGenuine
    /\ Visited("SignatureVerified")

(* C16: a non-experimental transaction event whose signature does not     *)
(* verify is answered with HTTP 400 and a JSON body with the key status;  *)
(* none of its handlers is invoked and no "ok" is sent                    *)
C16_BadSignatureIs400 ==
    (Visited("Parsed") /\ hook.stage # "Parsed"
        /\ ~hook.update.is_experimental /\ ~HashIsGenuine) =>
        /\ hook.stage = "Rejected"
        /\ hook.response.status = 400
        /\ hook.response.content_type = "application/json"
        /\ DOMAIN hook.response.json = {"status"}
        /\ hook.response.json # NoJson
        /\ hook.response.text # "ok"
        /\ hook.invoked = <<>>

C16_Witness ==
    /\ hook.stage = "Rejected"
    /\ hook.reason = "signature"
    /\ Selected # {}

(* the stages of a request so far are the first n stages of the order,    *)
(* or the first n (one to three of them) followed by Rejected             *)
InStageOrder ==
    \E n \in 0..Len(StageOrder) :
        \/ hook.trace = SubSeq(StageOrder, 1, n)
        \/ n \in 1..3 /\ hook.trace = Append(SubSeq(StageOrder, 1, n), "Rejected")

(* C17: a request goes through Received, IPChecked, Parsed,               *)
(* SignatureVerified, Dispatched, Acknowledged in this order; a source    *)
(* address outside the allow-list is rejected before the body is parsed;  *)
(* handlers are invoked only after the signature check has passed; every  *)
(* request ends in exactly one of Acknowledged and Rejected               *)
C17_StagesInOrder ==
    /\ [](/\ InStageOrder
          /\ hook.stage # "Idle" => hook.stage = hook.trace[Len(hook.trace)]
          /\ (hook.stage # "Idle" /\ hook.ip \notin AllowedIps) =>
                 /\ ~Visited("Parsed")
                 /\ hook.update = NoUpdate
                 /\ hook.stage \in {"Received", "Rejected"}
          /\ (hook.invoked # <<>> \/ hook.routed # <<>>) =>
                 /\ Visited("SignatureVerified")
                 /\ hook.update.is_experimental \/ HashIsGenuine)
    /\ [][hook.stage \in Terminal => hook' = hook]_vars
    /\ (hook.stage = "Received") ~> (hook.stage \in Terminal)

C17_Witness ==
    /\ hook.stage = "Rejected"
    /\ hook.reason = "ip"
    /\ hook.body.parses

(* C18: every event that passed the address check, the parsing and the    *)
(* signature validation is acknowledged with the plain "ok" response,     *)
(* whether or not a handler was selected and whether or not one raised    *)
C18_ValidatedIsAcknowledged ==
    /\ []((Visited("SignatureVerified") /\ hook.stage \in Terminal) =>
              /\ hook.stage = "Acknowledged"
              /\ hook.response.status = 200
              /\ hook.response.text = "ok")
    /\ Visited("SignatureVerified") ~> (hook.stage = "Acknowledged")

C18_Witness ==
    /\ hook.stage = "Acknowledged"
    /\ hook.routed # <<>>
    /\ hook.response.text = "ok"

(* C19: a handler that raises does not keep the handlers registered after *)
(* it from being invoked for the same event; what it raised goes to the   *)
(* exception handlers and not to the HTTP layer, and the dispatch         *)
(* completes                                                              *)
C19_HandlersAreIsolated ==
    /\ [](/\ Visited("Dispatched") =>
                 /\ \A i \in Range(hook.invoked), j \in Selected :
                        (handlers[i].raises /\ i < j) => j \in Range(hook.invoked)
                 /\ Range(hook.routed) =
                        {i \in Range(hook.invoked) : handlers[i].raises}
          /\ hook.routed # <<>> => hook.stage # "Rejected")
    /\ (hook.routed # <<>>) ~> Visited("Dispatched")

C19_Witness ==
    /\ Visited("Dispatched")
    /\ \E i \in Range(hook.invoked), j \in Range(hook.invoked) :
           i < j /\ handlers[i].raises

(* C20: the handlers invoked for an event are exactly the registered      *)
(* (filter, handler) pairs of the type of the event whose filter holds    *)
(* for it, each once and in the order of registration; a dispatch changes *)
(* no registration                                                        *)
C20_ExactlyTheSelected ==
    /\ [](/\ Visited("Dispatched") => Range(hook.invoked) = Selected
          /\ Range(hook.invoked) \subseteq Selected
          /\ \A m, n \in 1..Len(hook.invoked) :
                 m < n => hook.invoked[m] < hook.invoked[n])
    /\ [][hook.stage # "Idle" => handlers' = handlers]_vars

C20_Witness ==
    /\ Visited("Dispatched")
    /\ Len(hook.invoked) = 1
    /\ \E i \in 1..Len(handlers) :
           /\ handlers[i].type = "transaction"
           /\ i \notin Range(hook.invoked)

(* ------------------------------ builder -------------------------------- *)
(* the body has a field at the path *)
RECURSIVE HasField(_, _)
HasField(node, keys) ==
    IF keys = <<>> THEN TRUE
    ELSE /\ node.kind = "dict"
         /\ keys[1] \in DOMAIN node.items
         /\ HasField(node.items[keys[1]], Tail(keys))

(* every leaf of the body is a value: no placeholder, no absent marker *)
RECURSIVE AllResolved(_)
AllResolved(node) ==
    IF node.kind = "dict"
    THEN \A k \in DOMAIN node.items : AllResolved(node.items[k])
    ELSE node.kind = "value" /\ node.value.type \in {"int", "str"}

(* C21: a build with complete runtime values gives a body without an      *)
(* unresolved placeholder: literals are copied, a placeholder with a      *)
(* value of the caller holds that value, one with a default and no value  *)
(* of the caller holds the default (amount 99), and a field resolved to   *)
(* the absent marker is not in the body                                   *)
C21_BuildResolvesEverything ==
    (built.n > 0 /\ RequiredPaths \subseteq DOMAIN built.R) =>
        LET body == built.result.body
        IN  /\ built.result.ok
            /\ AllResolved(body)
            /\ ValueAt(body, <<"sum", "currency">>) = PyStr("643")
            /\ ValueAt(body, <<"paymentMethod", "type">>) = PyStr("Account")
            /\ ValueAt(body, <<"paymentMethod", "accountId">>) = PyStr("643")
            /\ \A p \in PlaceholderPaths :
                   IF p \in DOMAIN built.R
                   THEN IF built.R[p] = Absent
                        THEN ~HasField(body, KeysOf(p))
                        ELSE /\ HasField(body, KeysOf(p))
                             /\ ValueAt(body, KeysOf(p)) = built.R[p]
                   ELSE /\ HasField(body, KeysOf(p))
                        /\ p = "sum.amount" =>
                               ValueAt(body, KeysOf(p)) = [type |-> "int", val |-> "99"]

C21_Witness ==
    /\ built.n > 0
    /\ built.result.ok
    /\ "sum.amount" \notin DOMAIN built.R
    /\ built.R["fields.account"] = PyStr("v")
    /\ built.R["fields.order_id"] = Absent

(* C22: a build whose runtime values lack a placeholder without default   *)
(* (fields.account or fields.order_id) fails with SchemaBuildError naming *)
(* the path of the missing field, and no request goes to the transport    *)
C22_MissingFieldFailsBuild ==
    /\ []((built.n > 0 /\ ~(RequiredPaths \subseteq DOMAIN built.R)) =>
              /\ ~built.result.ok
              /\ built.result.error = "SchemaBuildError"
              /\ built.result.path \in RequiredPaths \ DOMAIN built.R)
    /\ [][(built'.n > built.n /\ ~(RequiredPaths \subseteq DOMAIN built'.R)) => wire' = wire]_vars

C22_Witness ==
    /\ built.n > 0
    /\ "fields.account" \notin DOMAIN built.R
    /\ "fields.order_id" \in DOMAIN built.R
    /\ built.result.path = "fields.account"

(* C23: a build never changes the class-level template, and the default   *)
(* factory is called once in each build and its value is not kept: the id *)
(* of a later build is the factory's value at the time of that build      *)
C23_TemplateKeptFactoryCalledAgain ==
    /\ [](request_schema = BuyQiwiCard_request_schema)
    /\ [][built'.n > built.n =>
             /\ built'.calls = built.calls + 1
             /\ built'.result.ok =>
                    ValueAt(built'.result.body, <<"id">>)
                        = [type |-> "str", val |-> ToString(now * 1000)]]_vars

C23_Witness ==
    /\ built.n = 2
    /\ built.calls = 2
    /\ built.at > 0
    /\ built.result.ok
    /\ Len(wire) = 2
    /\ wire[1].arg # wire[2].arg

C25_DeleteCurrentWebhook ==
    flow.op = "delete_current_webhook" =>
        /\ wire[1] = [method |-> "GetCurrentWebhook", arg |-> "-"]
        /\ (Len(flow.got) >= 1 /\ flow.got[1].kind = "api_error") =>
               /\ flow.outcome = "raised"
               /\ flow.error.type = "APIError"
               /\ flow.error.status_code = [type |-> "str", val |-> "422"]
               /\ flow.error.message = " You didn't register any webhook to delete "
               /\ Len(wire) = 1
        /\ (Len(flow.got) >= 1 /\ flow.got[1].kind = "ok") =>
               /\ Len(wire) = 2
               /\ wire[2] = [method |-> "DeleteWebhook", arg |-> flow.got[1].id]

C25_Witness ==
    /\ flow.op = "delete_current_webhook"
    /\ flow.outcome = "raised"
    /\ Len(flow.got) = 1
    /\ flow.got[1].kind = "api_error"

(* C26: issue_qiwi_master_card issues the order creation, then the        *)
(* confirmation for the id of the created order, and the card purchase    *)
(* exactly when the status of the confirmation is not "COMPLETED"; with   *)
(* "COMPLETED" it returns the order details of the confirmation after     *)
(* exactly two requests; a failed request prevents every later one        *)
C26_IssueQiwiMasterCard ==
    flow.op = "issue_qiwi_master_card" =>
        /\ wire[1].method = "PreQIWIMasterRequest"
        /\ \A i \in 1..Len(flow.got) :
               flow.got[i].kind # "ok" => Len(wire) = i /\ flow.outcome = "raised"
        /\ (Len(flow.got) >= 1 /\ flow.got[1].kind = "ok") =>
               wire[2] = [method |-> "ConfirmQiwiMasterRequest",
                          arg |-> flow.got[1].id]
        /\ (Len(flow.got) >= 2 /\ flow.got[2].kind = "ok") =>
               IF flow.got[2].status = "COMPLETED"
               THEN /\ Len(wire) = 2
                    /\ flow.outcome = "returned"
                    /\ flow.returns = flow.got[2].id
               ELSE /\ Len(wire) = 3
                    /\ wire[3].method = "BuyQiwiCard"

(* ------------------------------ sessions ------------------------------- *)
(* C27: a closed transport session is never reused: get_cached_session    *)
(* gives nothing or an open session, cache_session stores a session only  *)
(* while it is open, the transport is called with an open session, and    *)
(* without a persistent session the session closed at the end of a call   *)
(* is not stored for the next call                                        *)
C27_ClosedSessionNotReused ==
    /\ [](get_cached_session(cached_session, closed)
              \in {NoSession} \cup (SessionIds \ closed))
    /\ [][/\ cached_session' # cached_session =>
                 cached_session' = NoSession \/ cached_session' \notin closed'
          /\ BagCardinality(calls') > BagCardinality(calls) =>
                 session' # NoSession /\ session' \notin closed'
          /\ (without_context /\ Returned /\ last'.kind # "transport_error") =>
                 /\ session \in closed'
                 /\ cached_session' = cached_session
                 /\ get_cached_session(cached_session', closed') # session]_vars

C27_Witness ==
    /\ without_context
    /\ last.kind = "ok"
    /\ last.via_transport
    /\ session \in closed
    /\ cached_session # session

====
